---- MODULE Spec2Model ----
\* Model of errors.go (package lo): the message composer, the Must and MustE
\* families, the failure wrapper and the Try / TryOr / TryCatch families.
\*
\* Go values of dynamic type (any, error) are records with one shape:
\*   t    the dynamic type ("nil", "string", "int", "bool", "slice", "error",
\*        "wrapErrPrefixMsg", "runtime.TypeAssertionError")
\*   s    text: the characters of a string, the message of an error, the
\*        Attach of a wrapper
\*   n    the number of an int, 1/0 for a bool, the identity of an error
\*   base the Base of a wrapper, as a sequence of length one (empty otherwise)
\* A Go string is the sequence of its characters, so that concatenation,
\* emptiness and formatting are computed and not assumed.
EXTENDS Integers, Sequences, FiniteSets, TLC

VARIABLES stack, mode, panicVal, raisedDepth, last, req

vars == <<stack, mode, panicVal, raisedDepth, last, req>>

-----------------------------------------------------------------------------
\* Bounds of the model.

\* Longest messageArgs sequence drawn for a direct call.
MaxArgs == 2

\* Deepest nesting of Try-family calls.
MaxDepth == 2

-----------------------------------------------------------------------------
\* String literals of the source and of the inputs.

NotOk == <<"n", "o", "t", " ", "o", "k">>
Sep == <<":", " ">>
DiagHead == <<"m", "u", "s", "t", ":", " ", "i", "n", "v", "a", "l", "i", "d", " ", "e", "r", "r", " ", "t", "y", "p", "e", " ", "'">>
DiagTail == <<"'", ",", " ", "s", "h", "o", "u", "l", "d", " ", "e", "i", "t", "h", "e", "r", " ", "b", "e", " ", "a", " ", "b", "o", "o", "l", " ", "o", "r", " ", "a", "n", " ", "e", "r", "r", "o", "r">>
NilText == <<"<", "n", "i", "l", ">">>
ExtraHead == <<"%", "!", "(", "E", "X", "T", "R", "A", " ">>
NoVerb == <<"%", "!", "(", "N", "O", "V", "E", "R", "B", ")">>
Missing == <<"(", "M", "I", "S", "S", "I", "N", "G", ")">>
TrueText == <<"t", "r", "u", "e">>
FalseText == <<"f", "a", "l", "s", "e">>
IntName == <<"i", "n", "t">>
StringName == <<"s", "t", "r", "i", "n", "g">>
BoolName == <<"b", "o", "o", "l">>
SliceText == <<"[", "]">>
SliceTypeText == <<"[", "]", "i", "n", "t">>
ErrTypeText == <<"e", "r", "r", "o", "r">>

Tpl == <<"a", "=", "%", "d", ",", " ", "b", "=", "%", "s">>
TplOut == <<"a", "=", "3", ",", " ", "b", "=", "x">>
Ctx == <<"c", "t", "x">>
Boom == <<"b", "o", "o", "m">>
CtxBoom == <<"c", "t", "x", ":", " ", "b", "o", "o", "m">>
EofText == <<"E", "O", "F">>

-----------------------------------------------------------------------------
\* Values.

Val(t, s, n, base) == [t |-> t, s |-> s, n |-> n, base |-> base]

Nil == Val("nil", <<>>, 0, <<>>)
StrV(s) == Val("string", s, 0, <<>>)
IntV(n) == Val("int", <<>>, n, <<>>)
BoolV(b) == Val("bool", <<>>, IF b THEN 1 ELSE 0, <<>>)
Slice == Val("slice", <<>>, 0, <<>>)
Err(id, text) == Val("error", text, id, <<>>)

\* The value a failed single-value type assertion x.(string) panics with.
TypeAssertionError == Val("runtime.TypeAssertionError", <<>>, 0, <<>>)

IsError(v) == v.t \in {"error", "wrapErrPrefixMsg"}

ErrBoom == Err(1, Boom)
ErrBoomToo == Err(2, Boom)
ErrEOF == Err(3, EofText)

-----------------------------------------------------------------------------
\* type wrapErrPrefixMsg struct { Base error; Attach string }

wrapErrPrefixMsg(Base, Attach) == Val("wrapErrPrefixMsg", Attach, 0, <<Base>>)

RECURSIVE ErrorText(_)

wrapErrPrefixMsg_Error(err) ==
    IF err.s # <<>>
    THEN err.s \o Sep \o ErrorText(err.base[1])
    ELSE ErrorText(err.base[1])

\* e.Error() on an error value: the wrapper's method, or the text of a plain
\* error.
ErrorText(e) == IF e.t = "wrapErrPrefixMsg" THEN wrapErrPrefixMsg_Error(e) ELSE e.s

wrapErrPrefixMsg_String(err) == wrapErrPrefixMsg_Error(err)

wrapErrPrefixMsg_Unwrap(err) == err.base[1]

-----------------------------------------------------------------------------
\* fmt.Sprintf, for the verbs %d %s %v %% without flags or widths.

Digit(d) ==
    CASE d = 0 -> "0" [] d = 1 -> "1" [] d = 2 -> "2" [] d = 3 -> "3" [] d = 4 -> "4"
      [] d = 5 -> "5" [] d = 6 -> "6" [] d = 7 -> "7" [] d = 8 -> "8" [] OTHER -> "9"

RECURSIVE Itoa(_)
Itoa(n) ==
    IF n < 0 THEN <<"-">> \o Itoa(-n)
    ELSE IF n < 10 THEN <<Digit(n)>>
    ELSE Itoa(n \div 10) \o <<Digit(n % 10)>>

\* fmt.Sprintf("%+v", v): the default display form of a value.
Display(v) ==
    CASE v.t = "string" -> v.s
      [] v.t = "int" -> Itoa(v.n)
      [] v.t = "bool" -> (IF v.n = 1 THEN TrueText ELSE FalseText)
      [] IsError(v) -> ErrorText(v)
      [] v.t = "slice" -> SliceText
      [] OTHER -> NilText

\* reflect.TypeOf(v).String(), as fmt prints it in %!verb(type=value); the
\* substitution arguments drawn are strings and ints.
TypeString(v) ==
    CASE v.t = "string" -> StringName
      [] v.t = "int" -> IntName
      [] v.t = "bool" -> BoolName
      [] v.t = "slice" -> SliceTypeText
      [] OTHER -> ErrTypeText

BadVerb(verb, v) ==
    IF v.t = "nil"
    THEN <<"%", "!", verb, "(">> \o NilText \o <<")">>
    ELSE <<"%", "!", verb, "(">> \o TypeString(v) \o <<"=">> \o Display(v) \o <<")">>

FormatArg(verb, v) ==
    CASE verb = "v" -> Display(v)
      [] verb = "d" /\ v.t = "int" -> Itoa(v.n)
      [] verb = "s" /\ v.t = "string" -> v.s
      [] verb = "s" /\ IsError(v) -> ErrorText(v)
      [] OTHER -> BadVerb(verb, v)

RECURSIVE ExtraList(_, _)
ExtraList(a, i) ==
    LET one == IF a[i].t = "nil" THEN NilText
               ELSE TypeString(a[i]) \o <<"=">> \o Display(a[i])
    IN  IF i = Len(a) THEN one ELSE one \o <<",", " ">> \o ExtraList(a, i + 1)

RECURSIVE Fmt(_, _, _)
Fmt(f, a, argNum) ==
    IF f = <<>>
    THEN IF argNum <= Len(a) THEN ExtraHead \o ExtraList(a, argNum) \o <<")">> ELSE <<>>
    ELSE IF Head(f) # "%" THEN <<Head(f)>> \o Fmt(Tail(f), a, argNum)
    ELSE IF Len(f) = 1 THEN NoVerb \o Fmt(<<>>, a, argNum)
    ELSE LET verb == f[2]
             rest == SubSeq(f, 3, Len(f))
         IN  IF verb = "%" THEN <<"%">> \o Fmt(rest, a, argNum)
             ELSE IF argNum > Len(a)
                  THEN <<"%", "!", verb>> \o Missing \o Fmt(rest, a, argNum)
                  ELSE FormatArg(verb, a[argNum]) \o Fmt(rest, a, argNum + 1)

Sprintf(format, a) == Fmt(format, a, 1)

-----------------------------------------------------------------------------
\* func messageFromMsgAndArgs(msgAndArgs ...interface{}) string
\* The result says whether the call panicked (the type assertion of line 32),
\* with what, and the string returned otherwise.

Composed(s) == [panicked |-> FALSE, payload |-> Nil, s |-> s]
ComposePanic(v) == [panicked |-> TRUE, payload |-> v, s |-> <<>>]

messageFromMsgAndArgs_Stringify(msgAndArgs) ==
    IF Len(msgAndArgs) = 1
    THEN IF msgAndArgs[1].t = "string"
         THEN Composed(msgAndArgs[1].s)
         ELSE Composed(Display(msgAndArgs[1]))
    ELSE IF Len(msgAndArgs) > 1
    THEN Composed(Sprintf(Display(msgAndArgs[1]), Tail(msgAndArgs)))
    ELSE Composed(<<>>)

messageFromMsgAndArgs(msgAndArgs) ==
    IF Len(msgAndArgs) = 1
    THEN IF msgAndArgs[1].t = "string"
         THEN Composed(msgAndArgs[1].s)
         ELSE Composed(Display(msgAndArgs[1]))
    ELSE IF Len(msgAndArgs) > 1
    THEN IF msgAndArgs[1].t = "string"
         THEN Composed(Sprintf(msgAndArgs[1].s, Tail(msgAndArgs)))
         ELSE ComposePanic(TypeAssertionError)
    ELSE Composed(<<>>)

-----------------------------------------------------------------------------
\* The outcome of a call of the Must family: whether it panicked and with
\* what, how often LoPanic was invoked and with what argument, and the values
\* returned (none when the call panicked).

Returned == [panicked |-> FALSE, payload |-> Nil, hook |-> 0, hookArg |-> Nil]

\* A panic raised by the runtime, not through LoPanic.
RuntimePanic(v) == [panicked |-> TRUE, payload |-> v, hook |-> 0, hookArg |-> Nil]

\* var LoPanic = func(e any) { panic(e) }
LoPanic(e) == [panicked |-> TRUE, payload |-> e, hook |-> 1, hookArg |-> e]

\* reflect.TypeOf(err).Name(): the name of a defined type, empty for an
\* unnamed one such as a slice.
TypeName(v) ==
    CASE v.t = "string" -> StringName
      [] v.t = "int" -> IntName
      [] v.t = "bool" -> BoolName
      [] OTHER -> <<>>

must_NoDefault(err, messageArgs) ==
    IF err = Nil THEN Returned
    ELSE IF err.t = "bool"
    THEN IF err.n = 0
         THEN LET message == messageFromMsgAndArgs(messageArgs)
              IN  IF message.panicked THEN RuntimePanic(message.payload)
                  ELSE LoPanic(StrV(message.s))
         ELSE Returned
    ELSE IF IsError(err)
    THEN LET message == messageFromMsgAndArgs(messageArgs)
         IN  IF message.panicked THEN RuntimePanic(message.payload)
             ELSE IF message.s # <<>>
                  THEN LoPanic(StrV(message.s \o Sep \o ErrorText(err)))
                  ELSE LoPanic(StrV(ErrorText(err)))
    ELSE LoPanic(StrV(DiagHead \o TypeName(err) \o DiagTail))

must_NoPrefix(err, messageArgs) ==
    IF err = Nil THEN Returned
    ELSE IF err.t = "bool"
    THEN IF err.n = 0
         THEN LET message == messageFromMsgAndArgs(messageArgs)
              IN  IF message.panicked THEN RuntimePanic(message.payload)
                  ELSE LoPanic(StrV(IF message.s = <<>> THEN NotOk ELSE message.s))
         ELSE Returned
    ELSE IF IsError(err)
    THEN LET message == messageFromMsgAndArgs(messageArgs)
         IN  IF message.panicked THEN RuntimePanic(message.payload)
             ELSE LoPanic(StrV(ErrorText(err)))
    ELSE LoPanic(StrV(DiagHead \o TypeName(err) \o DiagTail))

must_EagerMessage(err, messageArgs) ==
    LET message == messageFromMsgAndArgs(messageArgs)
    IN  IF message.panicked THEN RuntimePanic(message.payload)
        ELSE IF err = Nil THEN Returned
        ELSE IF err.t = "bool"
        THEN IF err.n = 0
             THEN LoPanic(StrV(IF message.s = <<>> THEN NotOk ELSE message.s))
             ELSE Returned
        ELSE IF IsError(err)
        THEN IF message.s # <<>>
             THEN LoPanic(StrV(message.s \o Sep \o ErrorText(err)))
             ELSE LoPanic(StrV(ErrorText(err)))
        ELSE LoPanic(StrV(DiagHead \o TypeName(err) \o DiagTail))

must_NoDiagnostic(err, messageArgs) ==
    IF err = Nil THEN Returned
    ELSE IF err.t = "bool"
    THEN IF err.n = 0
         THEN LET message == messageFromMsgAndArgs(messageArgs)
              IN  IF message.panicked THEN RuntimePanic(message.payload)
                  ELSE LoPanic(StrV(IF message.s = <<>> THEN NotOk ELSE message.s))
         ELSE Returned
    ELSE IF IsError(err)
    THEN LET message == messageFromMsgAndArgs(messageArgs)
         IN  IF message.panicked THEN RuntimePanic(message.payload)
             ELSE IF message.s # <<>>
                  THEN LoPanic(StrV(message.s \o Sep \o ErrorText(err)))
                  ELSE LoPanic(StrV(ErrorText(err)))
    ELSE Returned

\* func must(err any, messageArgs ...interface{})
must(err, messageArgs) ==
    IF err = Nil THEN Returned
    ELSE IF err.t = "bool"
    THEN IF err.n = 0
         THEN LET message == messageFromMsgAndArgs(messageArgs)
              IN  IF message.panicked THEN RuntimePanic(message.payload)
                  ELSE LoPanic(StrV(IF message.s = <<>> THEN NotOk ELSE message.s))
         ELSE Returned
    ELSE IF IsError(err)
    THEN LET message == messageFromMsgAndArgs(messageArgs)
         IN  IF message.panicked THEN RuntimePanic(message.payload)
             ELSE IF message.s # <<>>
                  THEN LoPanic(StrV(message.s \o Sep \o ErrorText(err)))
                  ELSE LoPanic(StrV(ErrorText(err)))
    ELSE LoPanic(StrV(DiagHead \o TypeName(err) \o DiagTail))

\* "must(...); return vals": the values reach the caller only when must
\* returned.
Then(o, vals) ==
    [panicked |-> o.panicked, payload |-> o.payload, hook |-> o.hook,
     hookArg |-> o.hookArg, ret |-> IF o.panicked THEN <<>> ELSE vals]

Must(val, err, messageArgs) == Then(must(err, messageArgs), <<val>>)

Must0(err, messageArgs) == Then(must(err, messageArgs), <<>>)

Must1(val, err, messageArgs) == Must(val, err, messageArgs)

Must2(val1, val2, err, messageArgs) == Then(must(err, messageArgs), <<val1, val2>>)

Must3(val1, val2, val3, err, messageArgs) ==
    Then(must(err, messageArgs), <<val1, val2, val3>>)

Must4(val1, val2, val3, val4, err, messageArgs) ==
    Then(must(err, messageArgs), <<val1, val2, val3, val4>>)

Must5(val1, val2, val3, val4, val5, err, messageArgs) ==
    Then(must(err, messageArgs), <<val1, val2, val3, val4, val5>>)

Must6(val1, val2, val3, val4, val5, val6, err, messageArgs) ==
    Then(must(err, messageArgs), <<val1, val2, val3, val4, val5, val6>>)

mustE_Flatten(err, messageArgs) ==
    IF err = Nil THEN Returned
    ELSE LET message == messageFromMsgAndArgs(messageArgs)
         IN  IF message.panicked THEN RuntimePanic(message.payload)
             ELSE LoPanic(StrV(wrapErrPrefixMsg_Error(wrapErrPrefixMsg(err, message.s))))

\* func mustE(err error, messageArgs ...any)
mustE(err, messageArgs) ==
    IF err = Nil THEN Returned
    ELSE LET message == messageFromMsgAndArgs(messageArgs)
         IN  IF message.panicked THEN RuntimePanic(message.payload)
             ELSE LoPanic(wrapErrPrefixMsg(err, message.s))

MustE(val, err, messageArgs) == Then(mustE(err, messageArgs), <<val>>)

MustE0(err, messageArgs) == Then(mustE(err, messageArgs), <<>>)

MustE1(val1, err, messageArgs) == Then(mustE(err, messageArgs), <<val1>>)

MustE2(val1, val2, err, messageArgs) == Then(mustE(err, messageArgs), <<val1, val2>>)

MustE3(val1, val2, val3, err, messageArgs) ==
    Then(mustE(err, messageArgs), <<val1, val2, val3>>)

MustE4(val1, val2, val3, val4, err, messageArgs) ==
    Then(mustE(err, messageArgs), <<val1, val2, val3, val4>>)

MustE5(val1, val2, val3, val4, val5, err, messageArgs) ==
    Then(mustE(err, messageArgs), <<val1, val2, val3, val4, val5>>)

MustE6(val1, val2, val3, val4, val5, val6, err, messageArgs) ==
    Then(mustE(err, messageArgs), <<val1, val2, val3, val4, val5, val6>>)

\* The call fn(v[1], ..., v[n], err, messageArgs...) of a function named fn.
CallMust(fn, v, err, messageArgs) ==
    CASE fn = "Must" -> Must(v[1], err, messageArgs)
      [] fn = "Must0" -> Must0(err, messageArgs)
      [] fn = "Must1" -> Must1(v[1], err, messageArgs)
      [] fn = "Must2" -> Must2(v[1], v[2], err, messageArgs)
      [] fn = "Must3" -> Must3(v[1], v[2], v[3], err, messageArgs)
      [] fn = "Must4" -> Must4(v[1], v[2], v[3], v[4], err, messageArgs)
      [] fn = "Must5" -> Must5(v[1], v[2], v[3], v[4], v[5], err, messageArgs)
      [] fn = "Must6" -> Must6(v[1], v[2], v[3], v[4], v[5], v[6], err, messageArgs)
      [] fn = "MustE" -> MustE(v[1], err, messageArgs)
      [] fn = "MustE0" -> MustE0(err, messageArgs)
      [] fn = "MustE1" -> MustE1(v[1], err, messageArgs)
      [] fn = "MustE2" -> MustE2(v[1], v[2], err, messageArgs)
      [] fn = "MustE3" -> MustE3(v[1], v[2], v[3], err, messageArgs)
      [] fn = "MustE4" -> MustE4(v[1], v[2], v[3], v[4], err, messageArgs)
      [] fn = "MustE5" -> MustE5(v[1], v[2], v[3], v[4], v[5], err, messageArgs)
      [] OTHER -> MustE6(v[1], v[2], v[3], v[4], v[5], v[6], err, messageArgs)

\* The number of values each function passes through.
MustArity ==
    [fn \in {"Must", "Must1", "MustE", "MustE1"} |-> 1]
    @@ [fn \in {"Must0", "MustE0"} |-> 0]
    @@ [fn \in {"Must2", "MustE2"} |-> 2]
    @@ [fn \in {"Must3", "MustE3"} |-> 3]
    @@ [fn \in {"Must4", "MustE4"} |-> 4]
    @@ [fn \in {"Must5", "MustE5"} |-> 5]
    @@ [fn \in {"Must6", "MustE6"} |-> 6]

MustNames == {"Must", "Must0", "Must1", "Must2", "Must3", "Must4", "Must5", "Must6"}
MustENames == {"MustE", "MustE0", "MustE1", "MustE2", "MustE3", "MustE4", "MustE5", "MustE6"}

-----------------------------------------------------------------------------
\* The Try family. A callback is given by how its execution ends: it returns
\* values and an error, or it panics with a payload.

Returns(vals, err) == [kind |-> "return", vals |-> vals, err |-> err, payload |-> Nil]
Panics(v) == [kind |-> "panic", vals |-> <<>>, err |-> Nil, payload |-> v]
NoCallback == [kind |-> "none", vals |-> <<>>, err |-> Nil, payload |-> Nil]

\* recover() in a function deferred by the caller of callback: the payload of
\* the panic under way, nil when there is none.
Recovered(callback) == IF callback.kind = "panic" THEN callback.payload ELSE Nil

\* A func literal that calls callback and returns err: it ends as callback
\* ends, returning no values.
Closure(callback, err) == IF callback.kind = "panic" THEN callback ELSE Returns(<<>>, err)

Try_IgnoreErr(callback) ==
    LET r == Recovered(callback)
    IN  [panicked |-> FALSE, payload |-> Nil, ok |-> IF r # Nil THEN FALSE ELSE TRUE]

Try_NoRecover(callback) ==
    IF callback.kind = "panic"
    THEN [panicked |-> TRUE, payload |-> callback.payload, ok |-> TRUE]
    ELSE [panicked |-> FALSE, payload |-> Nil, ok |-> callback.err = Nil]

\* func Try(callback func() error) (ok bool)
Try(callback) ==
    LET r == Recovered(callback)
        ok0 == TRUE
        ok1 == IF callback.kind = "return" /\ callback.err # Nil THEN FALSE ELSE ok0
        ok2 == IF r # Nil THEN FALSE ELSE ok1
    IN  [panicked |-> FALSE, payload |-> Nil, ok |-> ok2]

Try0(callback) == Try(Closure(callback, Nil))

Try1(callback) == Try(callback)

Try2(callback) == Try(Closure(callback, callback.err))

Try3(callback) == Try(Closure(callback, callback.err))

Try4(callback) == Try(Closure(callback, callback.err))

Try5(callback) == Try(Closure(callback, callback.err))

Try6(callback) == Try(Closure(callback, callback.err))

\* The func literal the TryOr functions hand to Try0: it assigns the produced
\* values and sets ok only when callback returned a nil error.
Assigned(callback) == callback.kind = "return" /\ callback.err = Nil

\* What a TryOr function returns after Try0(...) ended as t.
OrResult(t, callback, produced, fallback) ==
    [panicked |-> t.panicked, payload |-> t.payload,
     out |-> IF t.panicked THEN <<>>
             ELSE IF Assigned(callback) THEN produced ELSE fallback,
     ok |-> Assigned(callback)]

TryOr1_AssignFirst(callback, fallbackA) ==
    OrResult(Try0(Closure(callback, Nil)), callback,
             <<callback.vals[1]>>,
             <<IF callback.kind = "return" THEN callback.vals[1] ELSE fallbackA>>)

TryOr1(callback, fallbackA) ==
    OrResult(Try0(Closure(callback, Nil)), callback, <<callback.vals[1]>>, <<fallbackA>>)

TryOr(callback, fallbackA) == TryOr1(callback, fallbackA)

TryOr2(callback, fallbackA, fallbackB) ==
    OrResult(Try0(Closure(callback, Nil)), callback,
             <<callback.vals[1], callback.vals[2]>>, <<fallbackA, fallbackB>>)

TryOr3(callback, fallbackA, fallbackB, fallbackC) ==
    OrResult(Try0(Closure(callback, Nil)), callback,
             <<callback.vals[1], callback.vals[2], callback.vals[3]>>,
             <<fallbackA, fallbackB, fallbackC>>)

TryOr4(callback, fallbackA, fallbackB, fallbackC, fallbackD) ==
    OrResult(Try0(Closure(callback, Nil)), callback,
             <<callback.vals[1], callback.vals[2], callback.vals[3], callback.vals[4]>>,
             <<fallbackA, fallbackB, fallbackC, fallbackD>>)

TryOr5(callback, fallbackA, fallbackB, fallbackC, fallbackD, fallbackE) ==
    OrResult(Try0(Closure(callback, Nil)), callback,
             <<callback.vals[1], callback.vals[2], callback.vals[3], callback.vals[4],
               callback.vals[5]>>,
             <<fallbackA, fallbackB, fallbackC, fallbackD, fallbackE>>)

TryOr6(callback, fallbackA, fallbackB, fallbackC, fallbackD, fallbackE, fallbackF) ==
    OrResult(Try0(Closure(callback, Nil)), callback,
             <<callback.vals[1], callback.vals[2], callback.vals[3], callback.vals[4],
               callback.vals[5], callback.vals[6]>>,
             <<fallbackA, fallbackB, fallbackC, fallbackD, fallbackE, fallbackF>>)

TryWithErrorValue_DropPayload(callback) ==
    LET r == Recovered(callback)
        failed == callback.kind = "return" /\ callback.err # Nil
    IN  [panicked |-> FALSE, payload |-> Nil,
         ok |-> IF r # Nil THEN FALSE ELSE ~failed,
         errorValue |-> IF failed THEN callback.err ELSE Nil]

\* func TryWithErrorValue(callback func() error) (errorValue any, ok bool)
TryWithErrorValue(callback) ==
    LET r == Recovered(callback)
        failed == callback.kind = "return" /\ callback.err # Nil
        ok1 == IF failed THEN FALSE ELSE TRUE
        errorValue1 == IF failed THEN callback.err ELSE Nil
    IN  [panicked |-> FALSE, payload |-> Nil,
         ok |-> IF r # Nil THEN FALSE ELSE ok1,
         errorValue |-> IF r # Nil THEN r ELSE errorValue1]

\* func TryCatch(callback func() error, catch func()): catch is the caller's;
\* the result counts its calls.
TryCatch(callback) ==
    LET t == Try(callback)
    IN  [panicked |-> t.panicked, payload |-> t.payload,
         catchCalls |-> IF ~t.panicked /\ ~t.ok THEN 1 ELSE 0]

\* func TryCatchWithErrorValue(callback func() error, catch func(any)): the
\* result counts the calls of catch and keeps the argument of the last one.
TryCatchWithErrorValue(callback) ==
    LET t == TryWithErrorValue(callback)
        called == ~t.panicked /\ ~t.ok
    IN  [panicked |-> t.panicked, payload |-> t.payload,
         catchCalls |-> IF called THEN 1 ELSE 0,
         catchArg |-> IF called THEN t.errorValue ELSE Nil]

TryNames == {"Try", "Try0", "Try1", "Try2", "Try3", "Try4", "Try5", "Try6"}
TryOrNames == {"TryOr", "TryOr1", "TryOr2", "TryOr3", "TryOr4", "TryOr5", "TryOr6"}
CatchNames == {"TryCatch", "TryCatchWithErrorValue"}
TryFns == TryNames \cup TryOrNames \cup CatchNames \cup {"TryWithErrorValue"}

\* The number of values the callback of each function returns next to its
\* error.
CallbackArity ==
    [fn \in {"Try", "Try0", "Try1", "TryWithErrorValue", "TryCatch",
             "TryCatchWithErrorValue"} |-> 0]
    @@ [fn \in {"Try2", "TryOr", "TryOr1"} |-> 1]
    @@ [fn \in {"Try3", "TryOr2"} |-> 2]
    @@ [fn \in {"Try4", "TryOr3"} |-> 3]
    @@ [fn \in {"Try5", "TryOr4"} |-> 4]
    @@ [fn \in {"Try6", "TryOr5"} |-> 5]
    @@ [fn \in {"TryOr6"} |-> 6]

\* The callback of Try0 is a func(): it returns no error.
ReturnsError(fn) == fn # "Try0"

\* The result of a call of the family, in one shape: whether a panic left the
\* call, what was returned (ok, the values out, the error value), and the
\* calls of catch.
Result(r, ok, out, value, catchCalls, catchArg) ==
    [panicked |-> r.panicked, payload |-> r.payload, ok |-> ok, out |-> out,
     value |-> value, catchCalls |-> catchCalls, catchArg |-> catchArg]

BoolResult(r) == Result(r, r.ok, <<>>, Nil, 0, Nil)
OrValues(r) == Result(r, r.ok, r.out, Nil, 0, Nil)

\* The call fn(callback, fb[1], ..., fb[n]) of a function named fn.
CallTry(fn, callback, fb) ==
    CASE fn = "Try" -> BoolResult(Try(callback))
      [] fn = "Try0" -> BoolResult(Try0(callback))
      [] fn = "Try1" -> BoolResult(Try1(callback))
      [] fn = "Try2" -> BoolResult(Try2(callback))
      [] fn = "Try3" -> BoolResult(Try3(callback))
      [] fn = "Try4" -> BoolResult(Try4(callback))
      [] fn = "Try5" -> BoolResult(Try5(callback))
      [] fn = "Try6" -> BoolResult(Try6(callback))
      [] fn = "TryOr" -> OrValues(TryOr(callback, fb[1]))
      [] fn = "TryOr1" -> OrValues(TryOr1(callback, fb[1]))
      [] fn = "TryOr2" -> OrValues(TryOr2(callback, fb[1], fb[2]))
      [] fn = "TryOr3" -> OrValues(TryOr3(callback, fb[1], fb[2], fb[3]))
      [] fn = "TryOr4" -> OrValues(TryOr4(callback, fb[1], fb[2], fb[3], fb[4]))
      [] fn = "TryOr5" -> OrValues(TryOr5(callback, fb[1], fb[2], fb[3], fb[4], fb[5]))
      [] fn = "TryOr6" ->
           OrValues(TryOr6(callback, fb[1], fb[2], fb[3], fb[4], fb[5], fb[6]))
      [] fn = "TryWithErrorValue" ->
           LET r == TryWithErrorValue(callback)
           IN  Result(r, r.ok, <<>>, r.errorValue, 0, Nil)
      [] fn = "TryCatch" ->
           LET r == TryCatch(callback)
           IN  Result(r, FALSE, <<>>, Nil, r.catchCalls, Nil)
      [] OTHER ->
           LET r == TryCatchWithErrorValue(callback)
           IN  Result(r, FALSE, <<>>, Nil, r.catchCalls, r.catchArg)

-----------------------------------------------------------------------------
\* Inputs.

\* n distinct values, val1 .. valn, of the row b.
Row(b, n) == [i \in 1..n |-> 10 * b + i]

\* Failure indicators handed to the Must family: nil, the booleans, errors
\* (one with an empty message, one a wrapper), and values that are neither.
ErrEmpty == Err(4, <<>>)
Indicators ==
    {Nil, BoolV(TRUE), BoolV(FALSE), ErrBoom, ErrEmpty, wrapErrPrefixMsg(ErrBoom, Ctx),
     IntV(3), Slice}

\* Errors handed to the MustE family.
Errors == {Nil, ErrBoom, ErrBoomToo, wrapErrPrefixMsg(ErrEOF, Ctx)}

\* messageArgs: every sequence of at most MaxArgs of these values, and some
\* others: one element of another type, a template that composes to the
\* empty string, a template with two substitutions, three elements the first
\* of which is no string.
ArgVals == {StrV(Ctx), StrV(Tpl), IntV(3), StrV(<<"x">>)}
MsgArgs ==
    UNION {[1..k -> ArgVals] : k \in 0..MaxArgs}
    \cup {<<StrV(<<>>)>>, <<ErrBoom>>, <<BoolV(TRUE)>>, <<Nil>>, <<Slice>>,
          <<StrV(<<"%", "s">>), StrV(<<>>)>>,
          <<StrV(Tpl), IntV(3), StrV(<<"x">>)>>,
          <<IntV(3), StrV(Ctx), StrV(<<"x">>)>>}

Request(fn, v, ind, args) == [fn |-> fn, v |-> v, ind |-> ind, args |-> args]
NoRequest == Request("none", <<>>, Nil, <<>>)

\* The direct calls: one per specification run.
Requests ==
    {Request("messageFromMsgAndArgs", <<>>, Nil, a) : a \in MsgArgs}
    \cup UNION {{Request(fn, Row(b, MustArity[fn]), ind, a) :
                    b \in 1..2, ind \in Indicators, a \in MsgArgs} : fn \in MustNames}
    \cup UNION {{Request(fn, Row(b, MustArity[fn]), e, a) :
                    b \in 1..2, e \in Errors, a \in MsgArgs} : fn \in MustENames}

\* The calls of the Must family a computation under Try makes.
InnerCalls ==
    {Request("Must0", <<>>, Nil, <<>>),
     Request("Must0", <<>>, BoolV(FALSE), <<>>),
     Request("Must", Row(1, 1), ErrBoom, <<StrV(Ctx)>>),
     Request("Must0", <<>>, IntV(3), <<>>),
     Request("Must0", <<>>, Slice, <<StrV(Ctx)>>),
     Request("Must0", <<>>, BoolV(FALSE), <<IntV(3), StrV(<<"x">>)>>),
     Request("MustE2", Row(1, 2), ErrBoom, <<StrV(Ctx)>>)}

\* The errors a callback returns and the payloads it panics with by itself.
\* The payloads are not nil: what recover() returns after panic(nil) is nil or
\* a *runtime.PanicNilError, as the toolchain and its panicnil setting have
\* it, and nothing in the source fixes either.
ReturnedErrors == {Nil, ErrBoom}
DirectPayloads == {StrV(<<"x">>), ErrEOF}

\* The functions of the Try family a callback calls in turn (the caller outside
\* any callback calls them all).
NestedFns == {"Try", "Try0", "TryOr2", "TryWithErrorValue", "TryCatchWithErrorValue"}

\* The fallback values handed to a TryOr function.
Fallback(fn) == IF fn \in TryOrNames THEN Row(9, CallbackArity[fn]) ELSE <<>>

-----------------------------------------------------------------------------
\* State.
\*   stack        the Try-family calls under way, outermost first; a frame is
\*                [fn, fallback, sub]: the function, its fallback arguments and
\*                what the last Try-family call made by its callback reported
\*                ("true", "false": for TryCatch, whether catch was called)
\*   mode         "run": the code on top of the stack (a callback, or the
\*                caller when the stack is empty) is executing;
\*                "panicking": a panic is unwinding; "crashed": it left the
\*                goroutine
\*   panicVal     the payload of the panic under way
\*   raisedDepth  the number of Try-family calls under way where it was raised
\*   last         the call that ended in the last step, if one did: its inputs
\*                and its outcome
\*   req          the direct call of a SpecCall run

NoCall ==
    [op |-> "none", vals |-> <<>>, ind |-> Nil, args |-> <<>>, cb |-> NoCallback,
     fallback |-> <<>>, depth |-> 0, sub |-> "none", panicked |-> FALSE,
     payload |-> Nil, hook |-> 0, hookArg |-> Nil, ret |-> <<>>, msg |-> <<>>,
     ok |-> FALSE, value |-> Nil, catchCalls |-> 0, catchArg |-> Nil]

Init ==
    /\ stack = <<>>
    /\ mode = "run"
    /\ panicVal = Nil
    /\ raisedDepth = 0
    /\ last = NoCall
    /\ req = NoRequest

InitCall ==
    /\ stack = <<>>
    /\ mode = "run"
    /\ panicVal = Nil
    /\ raisedDepth = 0
    /\ last = NoCall
    /\ req \in Requests

\* A call of the Must or MustE family by the code that is executing.
MustCall(c) ==
    /\ mode = "run"
    /\ LET o == CallMust(c.fn, c.v, c.ind, c.args)
       IN  /\ last' = [NoCall EXCEPT !.op = c.fn, !.vals = c.v, !.ind = c.ind,
                                     !.args = c.args, !.depth = Len(stack),
                                     !.panicked = o.panicked, !.payload = o.payload,
                                     !.hook = o.hook, !.hookArg = o.hookArg,
                                     !.ret = o.ret]
           /\ mode' = IF o.panicked THEN "panicking" ELSE "run"
           /\ panicVal' = o.payload
           /\ raisedDepth' = IF o.panicked THEN Len(stack) ELSE 0
    /\ UNCHANGED <<stack, req>>

\* The code that is executing calls a function of the Try family: its
\* callback starts.
TryCall(fn) ==
    /\ mode = "run"
    /\ Len(stack) < MaxDepth
    /\ fn \in (IF stack = <<>> THEN TryFns ELSE NestedFns)
    /\ stack' = Append(stack, [fn |-> fn, fallback |-> Fallback(fn), sub |-> "none"])
    /\ last' = NoCall
    /\ UNCHANGED <<mode, panicVal, raisedDepth, req>>

\* The innermost Try-family call ends, its callback having ended as given.
Finish(callback) ==
    LET n == Len(stack)
        fr == stack[n]
        res == CallTry(fr.fn, callback, fr.fallback)
        rest == SubSeq(stack, 1, n - 1)
        failed == IF fr.fn \in CatchNames THEN res.catchCalls > 0 ELSE ~res.ok
        report == IF failed THEN "false" ELSE "true"
    IN  /\ stack' = IF res.panicked \/ n = 1 THEN rest
                    ELSE [rest EXCEPT ![n - 1].sub = report]
        /\ mode' = IF res.panicked THEN "panicking" ELSE "run"
        /\ panicVal' = res.payload
        /\ raisedDepth' = IF res.panicked THEN raisedDepth ELSE 0
        /\ last' = [NoCall EXCEPT !.op = fr.fn, !.cb = callback,
                                  !.fallback = fr.fallback, !.depth = n,
                                  !.sub = fr.sub, !.panicked = res.panicked,
                                  !.payload = res.payload, !.ok = res.ok,
                                  !.ret = res.out, !.value = res.value,
                                  !.catchCalls = res.catchCalls,
                                  !.catchArg = res.catchArg]
        /\ UNCHANGED req

\* The callback of the innermost call returns.
Return(err) ==
    /\ mode = "run"
    /\ stack # <<>>
    /\ LET fn == stack[Len(stack)].fn
       IN  /\ ReturnsError(fn) \/ err = Nil
           /\ Finish(Returns(Row(1, CallbackArity[fn]), err))

\* The code that is executing calls panic(v) itself.
Panic(v) ==
    /\ mode = "run"
    /\ mode' = "panicking"
    /\ panicVal' = v
    /\ raisedDepth' = Len(stack)
    /\ last' = NoCall
    /\ UNCHANGED <<stack, req>>

\* The panic reaches the innermost Try-family call: its deferred function
\* runs.
Unwind ==
    /\ mode = "panicking"
    /\ stack # <<>>
    /\ Finish(Panics(panicVal))

\* The panic reaches the top of the goroutine: the program ends.
Crash ==
    /\ mode = "panicking"
    /\ stack = <<>>
    /\ mode' = "crashed"
    /\ UNCHANGED <<stack, panicVal, raisedDepth, last, req>>

\* The direct call of messageFromMsgAndArgs.
ComposeCall ==
    /\ req.fn = "messageFromMsgAndArgs"
    /\ last.op = "none"
    /\ mode = "run"
    /\ LET m == messageFromMsgAndArgs(req.args)
       IN  /\ last' = [NoCall EXCEPT !.op = req.fn, !.args = req.args,
                                     !.panicked = m.panicked, !.payload = m.payload,
                                     !.msg = m.s]
           /\ mode' = IF m.panicked THEN "panicking" ELSE "run"
           /\ panicVal' = m.payload
    /\ UNCHANGED <<stack, raisedDepth, req>>

\* The direct call of a function of the Must or MustE family.
DirectCall ==
    /\ req.fn \in MustNames \cup MustENames
    /\ last.op = "none"
    /\ MustCall(req)

Next ==
    \/ \E c \in InnerCalls : MustCall(c)
    \/ \E fn \in TryFns : TryCall(fn)
    \/ \E err \in ReturnedErrors : Return(err)
    \/ \E v \in DirectPayloads : Panic(v)
    \/ Unwind
    \/ Crash

Spec == Init /\ [][Next]_vars

NextCall == ComposeCall \/ DirectCall \/ Crash

SpecCall == InitCall /\ [][NextCall]_vars

-----------------------------------------------------------------------------
\* Properties of the direct calls (SpecCall).

\* The message composed from messageArgs, as the properties expect it: defined
\* unless there are two or more elements and the first is no string.
Composable(args) == Len(args) < 2 \/ args[1].t = "string"
Message(args) == messageFromMsgAndArgs(args).s

\* C10: the composer is decided by the length of its arguments: none gives
\* the empty string; one gives that element if it is a string and its
\* display form otherwise; two or more give element 0 as a format template
\* applied to elements 1..end, and the composer panics when element 0 is no
\* string.
C10_ComposerByLength ==
    last.op = "messageFromMsgAndArgs" =>
        /\ Len(last.args) = 0 => ~last.panicked /\ last.msg = <<>>
        /\ (Len(last.args) = 1 /\ last.args[1].t = "string") =>
               ~last.panicked /\ last.msg = last.args[1].s
        /\ (Len(last.args) = 1 /\ last.args[1].t # "string") =>
               ~last.panicked /\ last.msg = Display(last.args[1])
        /\ (Len(last.args) > 1 /\ last.args[1].t = "string") =>
               ~last.panicked /\ last.msg = Sprintf(last.args[1].s, Tail(last.args))
        /\ (Len(last.args) > 1 /\ last.args[1].t # "string") =>
               last.panicked /\ last.payload # Nil /\ mode # "run"
        /\ last.args = <<StrV(Tpl), IntV(3), StrV(<<"x">>)>> => last.msg = TplOut
        /\ last.args = <<IntV(3)>> => last.msg = <<"3">>
        /\ last.args = <<StrV(Ctx)>> => last.msg = Ctx

C10_Witness ==
    /\ last.op = "messageFromMsgAndArgs"
    /\ last.args = <<StrV(Tpl), IntV(3), StrV(<<"x">>)>>
    /\ last.msg = TplOut

\* C1: with a success indicator (nil, or the boolean true) every function
\* Must, Must0 .. Must6 returns its input values in their positions and does
\* not invoke LoPanic, whatever messageArgs are.
C1_SuccessPassesValues ==
    (last.op \in MustNames /\ last.ind \in {Nil, BoolV(TRUE)}) =>
        /\ ~last.panicked
        /\ last.hook = 0
        /\ last.ret = last.vals
        /\ Len(last.ret) = MustArity[last.op]

C1_Witness ==
    /\ last.op = "Must6"
    /\ last.ind = BoolV(TRUE)
    /\ last.args = <<IntV(3), StrV(Ctx)>>
    /\ last.ret = Row(2, 6)

\* C2, as claimed: with the indicator false, whatever messageArgs are, LoPanic
\* is invoked exactly once with a string and the call does not return.
C2_AsClaimed ==
    (last.op \in MustNames /\ last.ind = BoolV(FALSE)) =>
        /\ last.hook = 1
        /\ last.hookArg.t = "string"
        /\ last.panicked
        /\ last.ret = <<>>

\* C2, amended: with the indicator false and messageArgs that compose (fewer
\* than two elements, or a string first), LoPanic is invoked exactly once with
\* the string "not ok" when the composed message is empty and with the
\* composed message otherwise, and the call does not return its values; with
\* two or more messageArgs the first of which is no string, the composer's
\* panic ends the call and LoPanic is not invoked.
C2_FalseAborts ==
    (last.op \in MustNames /\ last.ind = BoolV(FALSE)) =>
        /\ last.panicked
        /\ last.ret = <<>>
        /\ Composable(last.args) =>
              /\ last.hook = 1
              /\ last.hookArg.t = "string"
              /\ last.payload = last.hookArg
              /\ Message(last.args) = <<>> => last.hookArg.s = NotOk
              /\ Message(last.args) # <<>> => last.hookArg.s = Message(last.args)
              /\ last.args = <<>> => last.hookArg = StrV(NotOk)
              /\ last.args = <<StrV(Ctx)>> => last.hookArg = StrV(Ctx)
        /\ ~Composable(last.args) =>
              last.hook = 0 /\ last.payload = TypeAssertionError

C2_Witness ==
    /\ last.op = "Must2"
    /\ last.ind = BoolV(FALSE)
    /\ last.args = <<>>
    /\ last.hook = 1
    /\ last.hookArg = StrV(NotOk)
    /\ mode # "run"

\* C3, as claimed: with an error as indicator, whatever messageArgs are,
\* LoPanic is invoked exactly once with a string.
C3_AsClaimed ==
    (last.op \in MustNames /\ IsError(last.ind)) =>
        /\ last.hook = 1
        /\ last.hookArg.t = "string"

\* C3, amended: with an error of display text D as indicator and messageArgs
\* that compose, LoPanic is invoked exactly once, with D when the composed
\* message is empty and with composed + ": " + D otherwise; with two or more
\* messageArgs the first of which is no string, the composer's panic ends the
\* call and LoPanic is not invoked.
C3_ErrorAborts ==
    (last.op \in MustNames /\ IsError(last.ind)) =>
        /\ last.panicked
        /\ last.ret = <<>>
        /\ Composable(last.args) =>
              /\ last.hook = 1
              /\ last.hookArg.t = "string"
              /\ last.payload = last.hookArg
              /\ Message(last.args) = <<>> => last.hookArg.s = ErrorText(last.ind)
              /\ Message(last.args) # <<>> =>
                     last.hookArg.s = Message(last.args) \o <<":", " ">> \o ErrorText(last.ind)
              /\ (last.ind = ErrBoom /\ last.args = <<>>) => last.hookArg = StrV(Boom)
              /\ (last.ind = ErrBoom /\ last.args = <<StrV(Ctx)>>) =>
                     last.hookArg = StrV(CtxBoom)
        /\ ~Composable(last.args) =>
              last.hook = 0 /\ last.payload = TypeAssertionError

C3_Witness ==
    /\ last.op = "Must"
    /\ last.ind = ErrBoom
    /\ last.args = <<StrV(Ctx)>>
    /\ last.hook = 1
    /\ last.hookArg = StrV(CtxBoom)

\* C9, as claimed: with a non-nil error F, whatever messageArgs are, a
\* function of the MustE family invokes LoPanic exactly once with a wrapper
\* whose base is F.
C9_AsClaimed ==
    (last.op \in MustENames /\ last.ind # Nil) =>
        /\ last.hook = 1
        /\ last.hookArg.t = "wrapErrPrefixMsg"
        /\ wrapErrPrefixMsg_Unwrap(last.hookArg) = last.ind

\* C9, amended: with a non-nil error F and messageArgs that compose, a
\* function of the MustE family invokes LoPanic exactly once with a wrapper of
\* base F and attach the composed message (no string); unwrapping it once
\* gives F itself, and its display is F's when attach is empty and
\* attach + ": " + F's otherwise. With two or more messageArgs the first of
\* which is no string, the composer's panic ends the call and LoPanic is not
\* invoked. With a nil error the values are returned and LoPanic is not
\* invoked.
C9_WrapKeepsBase ==
    last.op \in MustENames =>
        /\ last.ind = Nil =>
              ~last.panicked /\ last.hook = 0 /\ last.ret = last.vals
        /\ (last.ind # Nil /\ Composable(last.args)) =>
              /\ last.panicked
              /\ last.ret = <<>>
              /\ last.hook = 1
              /\ last.payload = last.hookArg
              /\ last.hookArg.t = "wrapErrPrefixMsg"
              /\ last.hookArg.s = Message(last.args)
              /\ wrapErrPrefixMsg_Unwrap(last.hookArg) = last.ind
              /\ wrapErrPrefixMsg_Error(last.hookArg) =
                     IF last.hookArg.s = <<>> THEN ErrorText(last.ind)
                     ELSE last.hookArg.s \o <<":", " ">> \o ErrorText(last.ind)
              /\ (last.ind = ErrBoom /\ last.args = <<StrV(Ctx)>>) =>
                     wrapErrPrefixMsg_Error(last.hookArg) = CtxBoom
        /\ (last.ind # Nil /\ ~Composable(last.args)) =>
              last.panicked /\ last.hook = 0 /\ last.payload = TypeAssertionError

C9_Witness ==
    /\ last.op = "MustE3"
    /\ last.ind = ErrBoomToo
    /\ last.args = <<StrV(Ctx)>>
    /\ last.hook = 1
    /\ wrapErrPrefixMsg_Unwrap(last.hookArg) = ErrBoomToo
    /\ wrapErrPrefixMsg_Unwrap(last.hookArg) # ErrBoom

-----------------------------------------------------------------------------
\* Properties of the Try family (Spec).

\* How the callback of the call that just ended had ended.
Succeeded(c) == c.cb.kind = "return" /\ c.cb.err = Nil
Aborted(c) == c.cb.kind = "panic"

\* The payload of must for an indicator of a type named name.
Diagnostic(name) == StrV(DiagHead \o name \o DiagTail)
IsDiagnostic(v) == v \in {Diagnostic(IntName), Diagnostic(<<>>)}

\* C4: Try and Try0 .. Try6 always return to their caller: true exactly when
\* the callback returned a nil error, false when it returned an error and
\* when it panicked; a panic under way was raised by the code now executing,
\* not inside a call of the family that has ended.
C4_TryReportsOutcome ==
    /\ last.op \in TryNames =>
          /\ ~last.panicked
          /\ mode = "run"
          /\ last.ok = Succeeded(last)
          /\ Aborted(last) => ~last.ok
    /\ mode # "run" => raisedDepth = Len(stack)

C4_Witness ==
    /\ last.op = "Try3"
    /\ last.cb = Panics(StrV(NotOk))
    /\ last.ok = FALSE
    /\ mode = "run"

\* C5: boundaries nest. A call of the family that ends takes exactly its own
\* frame off, leaves the enclosing calls as they were and hands control back
\* to the enclosing computation with no panic under way; the panic a call
\* catches was raised inside its own callback and after calls made there had
\* ended, and the enclosing computation sees the call report a failure. A Try
\* whose callback panics after an inner call reported false still returns
\* false.
C5_BoundariesNest ==
    /\ [](last.op \in TryNames /\ Aborted(last) => ~last.ok /\ ~last.panicked)
    /\ [][Len(stack') < Len(stack) =>
            /\ Len(stack') = Len(stack) - 1
            /\ mode' = "run"
            /\ panicVal' = Nil
            /\ \A i \in 1..Len(stack') :
                  /\ stack'[i].fn = stack[i].fn
                  /\ stack'[i].fallback = stack[i].fallback
                  /\ i < Len(stack') => stack'[i] = stack[i]
            /\ last'.depth = Len(stack)
            /\ last'.sub = stack[Len(stack)].sub
            /\ mode = "panicking" =>
                  /\ raisedDepth = Len(stack)
                  /\ last'.cb = Panics(panicVal)
                  /\ Len(stack') > 0 => stack'[Len(stack')].sub = "false"
         ]_vars

C5_Witness ==
    /\ last.op = "Try"
    /\ last.depth = 1
    /\ last.sub = "false"
    /\ last.cb = Panics(StrV(NotOk))
    /\ last.ok = FALSE
    /\ mode = "run"
    /\ stack = <<>>

\* C6: TryOr and TryOr1 .. TryOr6 return the values the callback produced and
\* true when it returned a nil error, and the fallback values, unchanged, and
\* false when it returned an error or panicked: never a mix; TryOr and TryOr1
\* return the same for the same callback and fallback.
C6_TryOrValues ==
    last.op \in TryOrNames =>
        /\ ~last.panicked
        /\ Len(last.ret) = CallbackArity[last.op]
        /\ Succeeded(last) => last.ok /\ last.ret = last.cb.vals
        /\ ~Succeeded(last) => ~last.ok /\ last.ret = last.fallback

C6_Witness ==
    /\ last.op = "TryOr3"
    /\ last.cb = Returns(Row(1, 3), ErrBoom)
    /\ last.ret = Row(9, 3)
    /\ last.ok = FALSE

\* C7: TryCatchWithErrorValue calls catch exactly once when the callback
\* failed, with the error it returned or with the payload it panicked with,
\* and not at all otherwise; that value is the one TryWithErrorValue returns
\* next to false; TryCatch calls catch exactly once when the callback failed
\* and not at all otherwise.
C7_CatchOnceOnFailure ==
    /\ last.op \in CatchNames =>
          /\ ~last.panicked
          /\ Succeeded(last) => last.catchCalls = 0
          /\ ~Succeeded(last) => last.catchCalls = 1
          /\ (last.op = "TryCatchWithErrorValue" /\ ~Succeeded(last)) =>
                last.catchArg = IF Aborted(last) THEN last.cb.payload ELSE last.cb.err
    /\ last.op = "TryWithErrorValue" =>
          /\ ~last.panicked
          /\ last.ok = Succeeded(last)
          /\ last.value = IF Aborted(last) THEN last.cb.payload ELSE last.cb.err

C7_Witness ==
    /\ last.op = "TryCatchWithErrorValue"
    /\ last.cb = Panics(wrapErrPrefixMsg(ErrBoom, Ctx))
    /\ last.catchCalls = 1
    /\ last.catchArg = wrapErrPrefixMsg(ErrBoom, Ctx)

\* C8, as claimed: the panic must raises for an indicator that is neither nil,
\* a boolean nor an error carries the diagnostic built from the name of the
\* indicator's type and is not turned into a false return by an enclosing
\* Try.
C8_AsClaimed ==
    /\ (last.op \in MustNames /\ last.ind.t \in {"int", "slice"}) =>
          last.hook = 1 /\ IsDiagnostic(last.hookArg)
    /\ ~(last.op \in TryNames /\ Aborted(last) /\ IsDiagnostic(last.cb.payload)
         /\ ~last.panicked)

\* C8, amended: for an indicator that is neither nil, a boolean nor an error,
\* must invokes LoPanic exactly once, whatever messageArgs are, with
\* "must: invalid err type 'T', should either be a bool or an error", T being
\* the name of the indicator's type, empty when that type has no name (a
\* slice); this panic is caught by an enclosing Try like any other, and the
\* Try returns false.
C8_InvalidIndicator ==
    /\ (last.op \in MustNames /\ last.ind.t \in {"int", "slice"}) =>
          /\ last.panicked
          /\ last.hook = 1
          /\ last.payload = last.hookArg
          /\ last.ind.t = "int" => last.hookArg = Diagnostic(<<"i", "n", "t">>)
          /\ last.ind.t = "slice" => last.hookArg = Diagnostic(<<>>)
          /\ raisedDepth = Len(stack)
    /\ (last.op \in TryNames /\ Aborted(last) /\ IsDiagnostic(last.cb.payload)) =>
          ~last.panicked /\ ~last.ok /\ mode = "run"

C8_Witness ==
    /\ last.op = "Try"
    /\ last.cb = Panics(Diagnostic(IntName))
    /\ last.ok = FALSE
    /\ ~last.panicked
    /\ mode = "run"

====
